---- MODULE Spec2Model ----
(***************************************************************************)
(* DIUN webhook notifier (src/diun-notif/diun-notif.py).                   *)
(*                                                                         *)
(* The program is an HTTP server with one POST handler.  Its persistent    *)
(* state is the configuration held in the class variables of               *)
(* WebhookHandler (written once by main) and the server process itself.    *)
(* Everything else is local to one call of do_POST; the model keeps the    *)
(* observable results of the most recent call (HTTP response, uncaught     *)
(* exception, locals container/version, the send_notification call, the    *)
(* D-Bus Notify call and the log line) so that they can be inspected.      *)
(*                                                                         *)
(* Text is modelled as sequences of one-character strings so that          *)
(* str.split, the "in" test and indexing can be computed as Python does.   *)
(***************************************************************************)
EXTENDS Integers, Sequences, FiniteSets, TLC

(***************************************************************************)
(* Bounds of the model.                                                    *)
(***************************************************************************)
\* longest generated image reference (the named references below are longer)
MaxImageLen == 2

(***************************************************************************)
(* Text helpers.                                                           *)
(***************************************************************************)
\* characters the generated image references are built from
Alphabet == {"a", "/", ":"}

\* all texts over Alphabet of length <= n
TextsUpTo(n) == UNION {[1..k -> Alphabet] : k \in 0..n}

\* text -> TLA+ string (used for the notification body and the log)
RECURSIVE Flat(_)
Flat(s) == IF s = <<>> THEN "" ELSE Head(s) \o Flat(Tail(s))

\* Python: c in s   (s a str, c one character)
Contains(s, c) == \E i \in DOMAIN s : s[i] = c

\* Python: s.split(c) for a one-character separator; never returns []
RECURSIVE split(_, _)
split(s, c) ==
    IF s = <<>> THEN << <<>> >>
    ELSE LET rest == split(Tail(s), c)
         IN  IF Head(s) = c
             THEN << <<>> >> \o rest
             ELSE << <<Head(s)>> \o rest[1] >> \o Tail(rest)

\* Python: xs[-1] and xs[0]
Last(xs)  == xs[Len(xs)]
First(xs) == xs[1]

\* Python: str(n) for a small non-negative int
DigitChars == <<"0", "1", "2", "3", "4", "5", "6", "7", "8", "9">>
RECURSIVE IntStr(_)
IntStr(n) == IF n < 10 THEN <<DigitChars[n + 1]>>
             ELSE IntStr(n \div 10) \o <<DigitChars[(n % 10) + 1]>>

(***************************************************************************)
(* Literal texts of the source and of the documented scenarios.            *)
(***************************************************************************)
STATUS_NEW == <<"n", "e", "w">>
STATUS_OLD == <<"o", "l", "d">>
UNKNOWN    == <<"u", "n", "k", "n", "o", "w", "n">>
MY_CONTAINER == <<"m", "y", "-", "c", "o", "n", "t", "a", "i", "n", "e", "r">>
IMG_REGISTRY == <<"r", "e", "g", "i", "s", "t", "r", "y", ".", "e", "x", "a", "m", "p", "l", "e",
                  ".", "c", "o", "m", "/", "m", "y", "a", "p", "p", ":", "v", "2">>
IMG_BUSYBOX  == <<"b", "u", "s", "y", "b", "o", "x">>
IMG_NGINX    == <<"l", "i", "b", "/", "n", "g", "i", "n", "x", ":", "1", ".", "2", "5">>
IMG_PORT     == <<"l", "o", "c", "a", "l", "h", "o", "s", "t", ":", "5", "0", "0", "0", "/",
                  "l", "i", "b", "/", "a", "p", "p", ":", "1", ".", "2">>

(***************************************************************************)
(* JSON values as json.loads returns them.  Every value has the same       *)
(* fields: t is the Python type, s the text of a str, n the value of an    *)
(* int, items the elements of a list (texts).                              *)
(***************************************************************************)
Absent     == [t |-> "absent", s |-> <<>>, n |-> 0, items |-> <<>>]   \* key not in the dict
JNull      == [t |-> "null",   s |-> <<>>, n |-> 0, items |-> <<>>]   \* None
JNum(k)    == [t |-> "num",    s |-> <<>>, n |-> k, items |-> <<>>]
JStr(x)    == [t |-> "str",    s |-> x,    n |-> 0, items |-> <<>>]
JArr(xs)   == [t |-> "arr",    s |-> <<>>, n |-> 0, items |-> xs]

\* Python truth value of a value obtained with dict.get (absent gives None)
Truthy(v) ==
    CASE v.t = "str" -> v.s # <<>>
      [] v.t = "num" -> v.n # 0
      [] v.t = "arr" -> v.items # <<>>
      [] OTHER       -> FALSE

\* Python: str(v), as the f-string formats it
RECURSIVE ReprItems(_)
ReprItems(xs) ==
    IF xs = <<>> THEN <<>>
    ELSE <<"'">> \o Head(xs) \o <<"'">>
         \o (IF Tail(xs) = <<>> THEN <<>> ELSE <<",", " ">> \o ReprItems(Tail(xs)))
PyStr(v) ==
    CASE v.t = "str" -> v.s
      [] v.t = "num" -> IntStr(v.n)
      [] v.t = "arr" -> <<"[">> \o ReprItems(v.items) \o <<"]">>
      [] OTHER       -> <<"N", "o", "n", "e">>

\* the "metadata" member: its type, and its ctn_names member when it is a dict
Metadata(t, ctn) == [t |-> t, ctn_names |-> ctn]
\* a parsed document: its type, and the three members read when it is a dict
Payload(t, status, image, metadata) ==
    [t |-> t, status |-> status, image |-> image, metadata |-> metadata]
NoMetadata == Metadata("absent", Absent)
NonDict(t) == Payload(t, Absent, Absent, NoMetadata)

(***************************************************************************)
(* Requests.  A request is the Content-Length header, the bytes on the     *)
(* wire and how the D-Bus session behaves if it is called.                 *)
(***************************************************************************)
\* bytes of a body: an encoded JSON document, or bytes that are none
Body(kind, payload) == [kind |-> kind, payload |-> payload]
EmptyBody == Body("empty", NonDict("null"))

ImageTexts  == TextsUpTo(MaxImageLen) \cup {IMG_REGISTRY, IMG_BUSYBOX, IMG_NGINX, IMG_PORT}
ImageValues == {JStr(x) : x \in ImageTexts}
                 \cup {Absent, JNull, JNum(5), JArr(<<>>), JArr(<< <<":">> >>)}
CtnValues   == {Absent, JNull, JStr(<<>>), JStr(MY_CONTAINER), JNum(0), JNum(7),
                JArr(<< <<"a">> >>)}
MetadataValues == {Metadata("obj", c) : c \in CtnValues}
                    \cup {NoMetadata, Metadata("null", Absent), Metadata("str", Absent)}
StatusValues == {Absent, JNull, JNum(1), JStr(STATUS_NEW), JStr(STATUS_OLD)}

\* documents with status "new": every image with every metadata
NewPayloads   == {Payload("obj", JStr(STATUS_NEW), i, m) : i \in ImageValues, m \in MetadataValues}
\* documents with another status, or none
OtherPayloads == {Payload("obj", st, i, m) :
                     st \in StatusValues \ {JStr(STATUS_NEW)},
                     i \in {Absent, JNull, JStr(IMG_NGINX)},
                     m \in {NoMetadata, Metadata("obj", JStr(MY_CONTAINER))}}
\* documents that are not a JSON object
NonDictPayloads == {NonDict(t) : t \in {"null", "num", "str", "arr"}}
Bodies == {Body("json", p) : p \in NewPayloads \cup OtherPayloads \cup NonDictPayloads}
            \cup {EmptyBody, Body("truncated", NonDict("null")), Body("badutf8", NonDict("null"))}

\* Content-Length: "exact" the length of the body, "absent" no header,
\* "malformed" not a number
Request(cl, body) == [content_length |-> cl, body |-> body]
Requests == {Request("exact", b) : b \in Bodies}
              \cup {Request(cl, b) : cl \in {"absent", "malformed"},
                                     b \in {EmptyBody,
                                            Body("json", Payload("obj", JStr(STATUS_NEW), JStr(IMG_NGINX), NoMetadata))}}
NoRequest == Request("none", EmptyBody)

\* the session bus: reachable, unreachable, or Notify itself fails
BusBehaviours == {"ok", "connect_fail", "notify_fail"}

(***************************************************************************)
(* Configuration.                                                          *)
(***************************************************************************)
DEFAULT_APP_NAME      == "DIUN"
DEFAULT_ICON          == "docker-desktop"
DEFAULT_TIMEOUT       == 5000
DEFAULT_URGENCY       == "normal"
DEFAULT_DESKTOP_ENTRY == "diun-notif"
DEFAULT_SOUND_NAME    == "dialog-information"
\* an optional text: <<>> is None, <<x>> is the str x
None                  == <<>>
DEFAULT_SOUND_FILE    == None

URGENCY_MAP == [low |-> 0, normal |-> 1, critical |-> 2]

\* the class variables of WebhookHandler as the class statement sets them
ClassDefaults ==
    [app_name      |-> DEFAULT_APP_NAME,
     icon          |-> DEFAULT_ICON,
     timeout       |-> DEFAULT_TIMEOUT,
     urgency_int   |-> URGENCY_MAP[DEFAULT_URGENCY],
     desktop_entry |-> DEFAULT_DESKTOP_ENTRY,
     sound_name    |-> DEFAULT_SOUND_NAME,
     sound_file    |-> DEFAULT_SOUND_FILE]

\* command lines argparse accepts (--urgency is restricted by choices=)
SOUND_PATH == "/usr/share/sounds/update.oga"
Args ==
    [app_name      : {DEFAULT_APP_NAME},
     icon          : {DEFAULT_ICON},
     timeout       : {DEFAULT_TIMEOUT},
     urgency       : {"low", "normal", "critical"},
     desktop_entry : {DEFAULT_DESKTOP_ENTRY},
     sound_name    : {DEFAULT_SOUND_NAME, ""},
     sound_file    : {DEFAULT_SOUND_FILE, <<SOUND_PATH>>}]

\* Python truth value of an optional text and of a text
OptTruthy(o) == o # None /\ o[1] # ""
StrTruthy(x) == x # ""

(***************************************************************************)
(* The D-Bus call.                                                         *)
(***************************************************************************)
\* D-Bus variants of the hint dictionary
DBoolean(b) == [sig |-> "b", b |-> b,     y |-> 0, s |-> ""]
DByte(k)    == [sig |-> "y", b |-> FALSE, y |-> k, s |-> ""]
DString(x)  == [sig |-> "s", b |-> FALSE, y |-> 0, s |-> x]

\* a dictionary as the set of its (key, value) items
NoHints == {}
HintKeys(h) == {kv[1] : kv \in h}

\* the arguments of one interface.Notify call; called = FALSE when none was made
NoNotify ==
    [called |-> FALSE, app_name |-> "", replaces_id |-> 0, app_icon |-> "",
     summary |-> "", body |-> "", actions |-> <<>>, hints |-> NoHints, timeout |-> 0]

\* send_notification with "elif sound_file": the sound file replaces the sound name
send_notification_override(summary, body, app_name, icon, timeout, urgency, desktop_entry, sound_name, sound_file, bus) ==
    IF bus = "connect_fail"
    THEN [raised |-> TRUE, notify |-> NoNotify]
    ELSE LET hints == {<<"transient", DBoolean(FALSE)>>,
                       <<"urgency", DByte(urgency)>>,
                       <<"desktop-entry", DString(desktop_entry)>>}
                      \cup (IF OptTruthy(sound_file)
                            THEN {<<"sound-file", DString(sound_file[1])>>}
                            ELSE IF StrTruthy(sound_name)
                                 THEN {<<"sound-name", DString(sound_name)>>} ELSE {})
         IN  [raised |-> bus = "notify_fail",
              notify |-> [called |-> TRUE, app_name |-> app_name, replaces_id |-> 0,
                          app_icon |-> icon, summary |-> summary, body |-> body,
                          actions |-> <<>>, hints |-> hints, timeout |-> timeout]]

\* send_notification: the Notify call it makes, and whether it raises
send_notification(summary, body, app_name, icon, timeout, urgency, desktop_entry, sound_name, sound_file, bus) ==
    IF bus = "connect_fail"
    THEN \* dbus.SessionBus() / get_object raise before any call is made
         [raised |-> TRUE, notify |-> NoNotify]
    ELSE LET hints == {<<"transient", DBoolean(FALSE)>>,
                       <<"urgency", DByte(urgency)>>,
                       <<"desktop-entry", DString(desktop_entry)>>}
                      \cup (IF StrTruthy(sound_name)
                            THEN {<<"sound-name", DString(sound_name)>>} ELSE {})
                      \cup (IF OptTruthy(sound_file)
                            THEN {<<"sound-file", DString(sound_file[1])>>} ELSE {})
         IN  [raised |-> bus = "notify_fail",
              notify |-> [called |-> TRUE, app_name |-> app_name, replaces_id |-> 0,
                          app_icon |-> icon, summary |-> summary, body |-> body,
                          actions |-> <<>>, hints |-> hints, timeout |-> timeout]]

(***************************************************************************)
(* The POST handler.                                                       *)
(***************************************************************************)
\* an HTTP response; code 0: the handler wrote none (the connection is closed)
Response(code, body) == [code |-> code, body |-> body]
NoResponse == Response(0, "")

\* the arguments of one send_notification call; called = FALSE when none was made
NoDispatch == [called |-> FALSE, summary |-> "", body |-> ""]

\* what one call of do_POST leaves behind
Outcome(response, exc, container, version, sent, notify, log) ==
    [response |-> response, exc |-> exc, container |-> container, version |-> version,
     sent |-> sent, notify |-> notify, log |-> log]
\* how the session bus behaved for a request: "unused" when it was not called
BusUsed(o, bus) == IF o.sent.called THEN bus ELSE "unused"
\* the handler raised exc before writing a response
Raised(exc, container) ==
    Outcome(NoResponse, exc, container, Absent, NoDispatch, NoNotify, "none")

\* self.rfile.read(length): without a Content-Length header the length is 0
read(req) == IF req.content_length = "absent" THEN EmptyBody ELSE req.body

\* json.loads(data) on bytes: the document, JSONDecodeError for text that is no
\* document, UnicodeDecodeError (a ValueError, not a JSONDecodeError) for bytes
\* that cannot be decoded
json_loads(data) ==
    CASE data.kind = "json"    -> [exc |-> "none", value |-> data.payload]
      [] data.kind = "badutf8" -> [exc |-> "UnicodeDecodeError", value |-> NonDict("null")]
      [] OTHER                 -> [exc |-> "JSONDecodeError", value |-> NonDict("null")]

\* resolve_container with split("/")[0]: the registry instead of the last segment
resolve_container_first_segment(image, metadata) ==
    IF metadata.t = "obj" /\ Truthy(metadata.ctn_names)
    THEN [exc |-> "none", value |-> metadata.ctn_names]
    ELSE IF image.t # "str"
         THEN [exc |-> "AttributeError", value |-> Absent]
         ELSE LET base      == First(split(image.s, "/"))
                  container == First(split(base, ":"))
              IN  [exc |-> "none",
                   value |-> IF container = <<>> THEN JStr(UNKNOWN) ELSE JStr(container)]

\* container name: metadata.ctn_names, else parsed from the image
resolve_container(image, metadata) ==
    IF metadata.t = "obj" /\ Truthy(metadata.ctn_names)
    THEN [exc |-> "none", value |-> metadata.ctn_names]
    ELSE IF image.t # "str"
         THEN [exc |-> "AttributeError", value |-> Absent]      \* no attribute split
         ELSE LET base      == Last(split(image.s, "/"))
                  container == First(split(base, ":"))
              IN  [exc |-> "none",
                   value |-> IF container = <<>> THEN JStr(UNKNOWN) ELSE JStr(container)]

\* resolve_version with split(":")[1]: the part after the first colon
resolve_version_first_colon(image) ==
    CASE image.t = "str" ->
             [exc |-> "none",
              value |-> IF Contains(image.s, ":")
                        THEN JStr(split(image.s, ":")[2]) ELSE JStr(UNKNOWN)]
      [] image.t = "arr" ->
             IF \E i \in DOMAIN image.items : image.items[i] = <<":">>
             THEN [exc |-> "AttributeError", value |-> Absent]
             ELSE [exc |-> "none", value |-> JStr(UNKNOWN)]
      [] OTHER -> [exc |-> "TypeError", value |-> Absent]

\* image.split(":")[-1] if ":" in image else "unknown"
resolve_version(image) ==
    CASE image.t = "str" ->
             [exc |-> "none",
              value |-> IF Contains(image.s, ":")
                        THEN JStr(Last(split(image.s, ":"))) ELSE JStr(UNKNOWN)]
      [] image.t = "arr" ->
             IF \E i \in DOMAIN image.items : image.items[i] = <<":">>
             THEN [exc |-> "AttributeError", value |-> Absent]  \* list has no split
             ELSE [exc |-> "none", value |-> JStr(UNKNOWN)]
      [] OTHER -> [exc |-> "TypeError", value |-> Absent]       \* not iterable

TITLE == "Docker Image Update"
\* format_body with container and version exchanged
format_body_swapped(container, version) ==
    "Update Available for Container: " \o Flat(PyStr(version))
        \o " Image -> new version: " \o Flat(PyStr(container))

\* the f-string of the notification body
format_body(container, version) ==
    "Update Available for Container: " \o Flat(PyStr(container))
        \o " Image -> new version: " \o Flat(PyStr(version))

\* dispatch with "except dbus.DBusException" around the connection only: a
\* failure of Notify leaves the handler
dispatch_uncaught(title, body, c, bus) ==
    LET call == send_notification(title, body, c.app_name, c.icon, c.timeout,
                                  c.urgency_int, c.desktop_entry,
                                  c.sound_name, c.sound_file, bus)
    IN  [exc    |-> IF bus = "notify_fail" THEN "DBusException" ELSE "none",
         notify |-> call.notify,
         log    |-> IF call.raised THEN "dbus_error" ELSE "sent"]

\* the try statement around send_notification: every Exception is caught and
\* printed to stderr, so no exception leaves it
dispatch(title, body, c, bus) ==
    LET call == send_notification(title, body, c.app_name, c.icon, c.timeout,
                                  c.urgency_int, c.desktop_entry,
                                  c.sound_name, c.sound_file, bus)
    IN  [exc    |-> "none",
         notify |-> call.notify,
         log    |-> IF call.raised THEN "dbus_error" ELSE "sent"]

\* the body of do_POST on the request req, with the session bus behaving as bus,
\* under the handler configuration c
handle(req, bus, c) ==
    IF req.content_length = "malformed"
    THEN Raised("ValueError", Absent)                           \* int(...) raises
    ELSE
    LET parsed == json_loads(read(req)) IN
    IF parsed.exc = "JSONDecodeError"
    THEN Outcome(Response(400, "Invalid JSON"), "none", Absent, Absent,
                 NoDispatch, NoNotify, "none")
    ELSE IF parsed.exc # "none"
    THEN Raised(parsed.exc, Absent)
    ELSE
    LET payload == parsed.value IN
    IF payload.t # "obj"
    THEN Raised("AttributeError", Absent)                       \* no attribute get
    ELSE IF payload.status # JStr(STATUS_NEW)
    THEN Outcome(Response(200, "OK"), "none", Absent, Absent,
                 NoDispatch, NoNotify, "ignored")
    ELSE
    LET image     == IF payload.image = Absent THEN JStr(<<>>) ELSE payload.image
        metadata  == payload.metadata
        container == resolve_container(image, metadata)
    IN
    IF container.exc # "none"
    THEN Raised(container.exc, Absent)
    ELSE
    LET version == resolve_version(image) IN
    IF version.exc # "none"
    THEN Raised(version.exc, container.value)
    ELSE
    LET title == TITLE
        body  == format_body(container.value, version.value)
        d     == dispatch(title, body, c, bus)
        call  == [called |-> TRUE, summary |-> title, body |-> body]
    IN  IF d.exc # "none"
        THEN Outcome(NoResponse, d.exc, container.value, version.value,
                     call, d.notify, "none")
        ELSE Outcome(Response(200, "OK"), "none", container.value, version.value,
                     call, d.notify, d.log)

(***************************************************************************)
(* State.                                                                  *)
(***************************************************************************)
VARIABLES
    cfg,        \* the configuration class variables of WebhookHandler
    proc,       \* the process: "init", "serving" or "stopped"
    request,    \* the request of the open connection, NoRequest between requests
    response,   \* the HTTP response written for it
    exc,        \* the exception that escaped do_POST, or "none"
    container,  \* the local variable container, Absent when not assigned
    version,    \* the local variable version, Absent when not assigned
    sent,       \* the send_notification call made for it
    notify,     \* the org.freedesktop.Notifications.Notify call made for it
    log,        \* what was printed: "sent", "dbus_error" (stderr), "ignored", "none"
    dbus,       \* how the session bus behaved for it, "unused" when not called
    earlier     \* how the request before this one ended, "none" for the first

handler == <<request, response, exc, container, version, sent, notify, log, dbus>>
vars    == <<cfg, proc, request, response, exc, container, version, sent, notify, log,
             dbus, earlier>>

\* how the request of the open connection ended
Ending ==
    CASE exc # "none"        -> "exception"
      [] response.code = 400 -> "invalid_json"
      [] OTHER               -> log

Init ==
    /\ cfg = ClassDefaults
    /\ proc = "init"
    /\ request = NoRequest
    /\ response = NoResponse
    /\ exc = "none"
    /\ container = Absent
    /\ version = Absent
    /\ sent = NoDispatch
    /\ notify = NoNotify
    /\ log = "none"
    /\ dbus = "unused"
    /\ earlier = "none"

\* main: store the parsed arguments in the class variables and start serving
main(args) ==
    /\ proc = "init"
    /\ cfg' = [app_name      |-> args.app_name,
               icon          |-> args.icon,
               timeout       |-> args.timeout,
               urgency_int   |-> URGENCY_MAP[args.urgency],
               desktop_entry |-> args.desktop_entry,
               sound_name    |-> args.sound_name,
               sound_file    |-> args.sound_file]
    /\ proc' = "serving"
    /\ UNCHANGED <<handler, earlier>>

\* do_POST that silences the sound in the class variables after a D-Bus error
do_POST_mutes(req, bus) ==
    /\ proc = "serving"
    /\ request = NoRequest
    /\ LET o == handle(req, bus, cfg)
       IN  /\ request' = req
           /\ response' = o.response
           /\ exc' = o.exc
           /\ container' = o.container
           /\ version' = o.version
           /\ sent' = o.sent
           /\ notify' = o.notify
           /\ log' = o.log
           /\ dbus' = BusUsed(o, bus)
           /\ cfg' = IF o.log = "dbus_error" THEN [cfg EXCEPT !.sound_name = ""] ELSE cfg
    /\ UNCHANGED <<proc, earlier>>

\* the server accepts a POST request and its handler runs to completion
do_POST(req, bus) ==
    /\ proc = "serving"
    /\ request = NoRequest
    /\ LET o == handle(req, bus, cfg)
       IN  /\ request' = req
           /\ response' = o.response
           /\ exc' = o.exc
           /\ container' = o.container
           /\ version' = o.version
           /\ sent' = o.sent
           /\ notify' = o.notify
           /\ log' = o.log
           /\ dbus' = BusUsed(o, bus)
    /\ UNCHANGED <<cfg, proc, earlier>>

\* serve_forever: the connection is closed, the handler object is dropped and
\* the server waits for the next request
serve_forever ==
    /\ proc = "serving"
    /\ request # NoRequest
    /\ earlier' = Ending
    /\ request' = NoRequest
    /\ response' = NoResponse
    /\ exc' = "none"
    /\ container' = Absent
    /\ version' = Absent
    /\ sent' = NoDispatch
    /\ notify' = NoNotify
    /\ log' = "none"
    /\ dbus' = "unused"
    /\ UNCHANGED <<cfg, proc>>

\* KeyboardInterrupt ends serve_forever; the server is shut down
shutdown ==
    /\ proc = "serving"
    /\ request = NoRequest
    /\ proc' = "stopped"
    /\ UNCHANGED <<cfg, handler, earlier>>

Next ==
    \/ \E args \in Args : main(args)
    \/ \E req \in Requests, bus \in BusBehaviours : do_POST(req, bus)
    \/ serve_forever
    \/ shutdown

Spec == Init /\ [][Next]_vars

(***************************************************************************)
(* Vocabulary of the properties.                                           *)
(***************************************************************************)
\* a request has been handled and its connection is still open
Handled == request # NoRequest
\* the bytes the handler parsed (none when Content-Length is not a number)
HasData == Handled /\ request.content_length # "malformed"
Data == read(request)
ParsesAsJSON == HasData /\ Data.kind = "json"
FailsToParse == HasData /\ Data.kind # "json"
\* the parsed event
Event == Data.payload
StatusIsNew == ParsesAsJSON /\ Event.t = "obj" /\ Event.status = JStr(STATUS_NEW)
\* the image reference of the event; a missing image is the empty reference
EventImage == IF Event.image = Absent THEN JStr(<<>>) ELSE Event.image

\* position of the last c in s, 0 when there is none
LastIndex(s, c) ==
    CHOOSE i \in 0..Len(s) :
        /\ i = 0 \/ s[i] = c
        /\ \A j \in (i + 1)..Len(s) : s[j] # c
\* position of the first c in s, Len(s) + 1 when there is none
FirstIndex(s, c) ==
    CHOOSE i \in 1..(Len(s) + 1) :
        /\ i = Len(s) + 1 \/ s[i] = c
        /\ \A j \in 1..(i - 1) : s[j] # c
\* the part of s after its last c (all of s when there is none)
AfterLast(s, c) == SubSeq(s, LastIndex(s, c) + 1, Len(s))
\* the part of s before its first c (all of s when there is none)
BeforeFirst(s, c) == SubSeq(s, 1, FirstIndex(s, c) - 1)

\* the container name derived from an image reference
DerivedContainer(img) ==
    LET name == BeforeFirst(AfterLast(img, "/"), ":")
    IN  IF name = <<>> THEN UNKNOWN ELSE name
\* the version derived from an image reference
DerivedVersion(img) ==
    IF \A i \in DOMAIN img : img[i] # ":" THEN UNKNOWN ELSE AfterLast(img, ":")

\* metadata is an object whose ctn_names is a non-empty text or list
ExplicitName ==
    /\ Event.metadata.t = "obj"
    /\ \/ Event.metadata.ctn_names.t = "str" /\ Event.metadata.ctn_names.s # <<>>
       \/ Event.metadata.ctn_names.t = "arr" /\ Event.metadata.ctn_names.items # <<>>
\* metadata gives no name: it is no object, or ctn_names is missing, null or empty
NoExplicitName ==
    \/ Event.metadata.t # "obj"
    \/ Event.metadata.ctn_names.t \in {"absent", "null"}
    \/ Event.metadata.ctn_names.t = "str" /\ Event.metadata.ctn_names.s = <<>>
    \/ Event.metadata.ctn_names.t = "arr" /\ Event.metadata.ctn_names.items = <<>>

MYAPP == <<"m", "y", "a", "p", "p">>
V2    == <<"v", "2">>

(***************************************************************************)
(* Properties.                                                             *)
(***************************************************************************)

\* C1: send_notification is called for a request if and only if its body
\* parses as JSON and the status of the parsed event is "new".
C1_DispatchIffStatusNew ==
    Handled => (sent.called <=> StatusIsNew)

\* C2: every body that parses as JSON, whatever JSON value it is and whatever
\* the types of its members, is answered with 200 and body "OK".
C2_ValidJsonAnswered200 ==
    ParsesAsJSON => response = Response(200, "OK")

\* C3: every body that fails to parse is answered with exactly 400 and body
\* "Invalid JSON", and nothing is dispatched.
C3_InvalidJsonAnswered400 ==
    FailsToParse =>
        /\ response = Response(400, "Invalid JSON")
        /\ ~sent.called
        /\ ~notify.called

\* C4: whenever a notification is dispatched, whether the session bus accepts
\* it, cannot be reached or fails in Notify, the response is 200 "OK", no
\* exception leaves the handler, a failure is only logged and the server
\* keeps serving.
C4_DispatchFailureStillOK ==
    (Handled /\ sent.called) =>
        /\ response = Response(200, "OK")
        /\ exc = "none"
        /\ proc = "serving"
        /\ log = (IF dbus = "ok" THEN "sent" ELSE "dbus_error")
W4_DispatchFailed ==
    /\ Handled /\ sent.called
    /\ dbus \in {"connect_fail", "notify_fail"}
    /\ log = "dbus_error"
    /\ response = Response(200, "OK")

\* C5: every parsed event with status "new", whatever its image and metadata
\* are, produces a notification request that is handed to the dispatcher.
C5_NewAlwaysProducesRequest ==
    StatusIsNew => (sent.called /\ sent.summary = TITLE)

\* C6: for an event with status "new": when metadata is an object with a
\* non-empty ctn_names the container is exactly that value whatever the image
\* is; otherwise the container is the image segment after the last "/" cut at
\* its first ":", or "unknown" when that is empty.
C6_ContainerResolution ==
    StatusIsNew =>
        /\ ExplicitName => container = Event.metadata.ctn_names
        /\ (NoExplicitName /\ EventImage.t = "str") =>
               /\ container = JStr(DerivedContainer(EventImage.s))
               /\ EventImage.s = IMG_REGISTRY => container = JStr(MYAPP)
               /\ EventImage.s = IMG_BUSYBOX  => container = JStr(IMG_BUSYBOX)
               /\ EventImage.s = <<>>         => container = JStr(UNKNOWN)
W6_ContainerFromImage ==
    /\ StatusIsNew /\ NoExplicitName
    /\ EventImage = JStr(IMG_PORT)
    /\ container = JStr(<<"a", "p", "p">>)

\* C7: for an event with status "new" the version is the part of the image
\* reference after its last ":", or "unknown" when the reference has no ":";
\* metadata has no influence on it.
C7_VersionResolution ==
    (StatusIsNew /\ EventImage.t = "str") =>
        /\ version = JStr(DerivedVersion(EventImage.s))
        /\ EventImage.s = IMG_REGISTRY => version = JStr(V2)
        /\ EventImage.s = IMG_BUSYBOX  => version = JStr(UNKNOWN)
        /\ EventImage.s = <<>>         => version = JStr(UNKNOWN)
W7_VersionAfterLastColon ==
    /\ StatusIsNew /\ ExplicitName
    /\ EventImage = JStr(IMG_PORT)
    /\ version = JStr(<<"1", ".", "2">>)

\* C8: every dispatched notification has the summary "Docker Image Update"
\* and the body "Update Available for Container: {container} Image -> new
\* version: {version}" with the resolved container and version; the Notify
\* call carries the same summary and body.
C8_SummaryAndBody ==
    (Handled /\ sent.called) =>
        /\ sent.summary = "Docker Image Update"
        /\ sent.body = "Update Available for Container: " \o Flat(PyStr(container))
                          \o " Image -> new version: " \o Flat(PyStr(version))
        /\ (EventImage = JStr(IMG_NGINX) /\ NoExplicitName) =>
               sent.body = "Update Available for Container: nginx Image -> new version: 1.25"
        /\ notify.called => (notify.summary = sent.summary /\ notify.body = sent.body)
W8_NginxScenario ==
    /\ Handled /\ sent.called /\ notify.called
    /\ Event = Payload("obj", JStr(STATUS_NEW), JStr(IMG_NGINX), NoMetadata)
    /\ notify.body = "Update Available for Container: nginx Image -> new version: 1.25"

C10_RequestsAreContained ==
    [][/\ proc = "serving" => cfg' = cfg
       /\ (proc = "serving" /\ Handled) => proc' = "serving"
       /\ (proc' = "serving" /\ request' = NoRequest) =>
              /\ response' = NoResponse
              /\ sent' = NoDispatch
              /\ notify' = NoNotify]_vars
W10_ServedAfterFailure ==
    /\ Handled
    /\ earlier \in {"exception", "dbus_error", "invalid_json"}
    /\ log = "sent"
    /\ response = Response(200, "OK")

====
